---- MODULE Spec2Model ----
(***************************************************************************)
(* The sequential piece picker of src/src/torrent/picker.rs as a state     *)
(* machine: Picker::new builds the state, pick and completed are the       *)
(* operations.  PieceField (torrent/mod.rs) is not among the sources; its  *)
(* operations are modelled from its description in the specification.      *)
(* The open-file cache of src/src/disk/cache.rs is a second machine with   *)
(* its own operations, get_file and remove_file.  The swarm simulation of  *)
(* src/src/torrent/picker/tests.rs is a third: one picker per peer, driven *)
(* tick by tick.                                                           *)
(***************************************************************************)
EXTENDS Integers, FiniteSets, Sequences, TLC

\* ------------------------------------------------------------------ bounds
\* Torrents of at most MaxPieces pieces, each of at most MaxScale sub-blocks,
\* with at most MaxBlocks sub-blocks in all; peers 0 .. MaxPeers-1.
MaxPieces == 2
MaxScale == 2
MaxBlocks == 3
MaxPeers == 2
\* piece_idx is a u32 that duplicate completions can push up without end;
\* the model stops completed once it would pass num_pieces + MaxOver.
MaxOver == 2
\* Paths 0 .. MaxPaths are handed to the file cache, and max_open_files is
\* configured anywhere in 0 .. MaxOpen.
MaxPaths == 3
MaxOpen == 2
\* Simulated swarms of 3 .. MaxSimPeers peers and 1 .. MaxSimPieces pieces.
MaxSimPeers == 3
MaxSimPieces == 2

\* The wire's request granularity (the literal 16384 of picker.rs).
BLOCK == 16384

VARIABLES
    num_pieces,     \* info.pieces(): the length of every peer's bitfield
    scale,          \* Picker.scale
    pieces,         \* Picker.pieces: [len, bits], a PieceField over sub-blocks
    piece_idx,      \* Picker.piece_idx
    endgame_cnt,    \* Picker.endgame_cnt
    waiting,        \* Picker.waiting
    waiting_peers,  \* Picker.waiting_peers: a function on its key set
    ret,            \* the last call: its arguments, the return taken, its result
    asked,          \* history: per sub-block in flight, the peers pick returned it to
    pairs,          \* the pick/completed pairs of the single-peer transfer so far
    max_open_files, \* CONFIG.net.max_open_files
    files,          \* FileCache.files: the paths that hold an open handle
    fcall,          \* the cache call in progress, or the last one made
    sim             \* the Simulation of picker/tests.rs, or [status |-> "off"]

vars == <<num_pieces, scale, pieces, piece_idx, endgame_cnt, waiting, waiting_peers,
          ret, asked, pairs, max_open_files, files, fcall, sim>>

picker_vars == <<num_pieces, scale, pieces, piece_idx, endgame_cnt, waiting,
                 waiting_peers, ret, asked, pairs>>

cache_vars == <<max_open_files, files, fcall>>

\* No simulation is running.
SimOff == [status |-> "off"]

\* ---------------------------------------------------------- FileCache::new
\* A call of the cache: the operation, where it stands (idle once returned,
\* in_f while the closure runs, panic once an unwrap has failed), its path,
\* whether the path was cached, the result returned, the number of times the
\* closure was invoked, the key set when the call began and the source line
\* the call last reached.
fcall_of(op, pc, path, hit, res, calls, line) ==
    [op |-> op, pc |-> pc, path |-> path, hit |-> hit, res |-> res,
     calls |-> calls, before |-> files, line |-> line]

FileCacheNew(m) ==
    /\ max_open_files = m
    /\ files = {}
    /\ fcall = [op |-> "new", pc |-> "idle"]

\* ------------------------------------------------------- PieceField (bitmap)
PieceFieldNew(n) == [len |-> n, bits |-> {}]

has_piece(pf, i) == i \in pf.bits

set_piece(pf, i) == [pf EXCEPT !.bits = @ \cup {i}]

\* iter_from(s): the set bits at or after s, in ascending order.
iter_from(pf, s) == {i \in pf.bits : i >= s /\ i < pf.len}

\* ------------------------------------------------------------- Picker::new
Ceil(a, b) == (a + b - 1) \div b

\* The metadata of a torrent: piece_len a positive multiple of BLOCK,
\* total_len positive, and as many hashes as pieces.
Infos ==
    {info \in
        {[piece_len |-> k * BLOCK, total_len |-> t, hashes |-> Ceil(t, k * BLOCK)] :
            k \in 1 .. MaxScale,
            t \in {b * BLOCK : b \in 1 .. MaxBlocks}
                  \cup {(b - 1) * BLOCK + 1 : b \in 1 .. MaxBlocks}} :
        info.hashes <= MaxPieces}

new_scale(info) == info.piece_len \div BLOCK

\* The last piece always counted one sub-block too long.
new_len_rounded_up(info) ==
    new_scale(info) * (info.hashes - 1)
    + (info.total_len - info.piece_len * (info.hashes - 1)) \div BLOCK + 1

new_len(info) ==
    LET compl_piece_len == new_scale(info) * (info.hashes - 1)
        last_piece_len == info.total_len - info.piece_len * (info.hashes - 1)
        last_blocks == IF last_piece_len % BLOCK = 0
                       THEN last_piece_len \div BLOCK
                       ELSE last_piece_len \div BLOCK + 1
    IN  compl_piece_len + last_blocks

\* The Info of test_piece_size.
TestInfo == [piece_len |-> 262144, total_len |-> 2000000, hashes |-> 8]

\* No pick or completed call made yet: the call was new(info).
new_ret(info) ==
    [op |-> "new", info |-> info, id |-> -1, view |-> {}, path |-> "-",
     piece |-> -1, offset |-> -1, done |-> FALSE, peers |-> {}, flip |-> 0]

new(info) ==
    /\ num_pieces = info.hashes
    /\ scale = new_scale(info)
    /\ pieces = PieceFieldNew(new_len(info))
    /\ piece_idx = 0
    /\ waiting = {}
    /\ endgame_cnt = new_len(info)
    /\ waiting_peers = << >>
    /\ ret = new_ret(info)

Init ==
    /\ \E info \in Infos : new(info)
    /\ asked = [b \in 0 .. (pieces.len - 1) |-> {}]
    /\ pairs = 0
    /\ FileCacheNew(MaxOpen)
    /\ sim = SimOff

\* ------------------------------------------------------------ Picker::pick
PeerIds == 0 .. (MaxPeers - 1)

Peers ==
    {[id |-> id, pieces |-> [len |-> num_pieces, bits |-> v]] :
        id \in PeerIds, v \in SUBSET (0 .. (num_pieces - 1))}

\* A decrement that was forgotten.
saturating_sub_kept(a, b) == a

saturating_sub(a, b) == IF a >= b THEN a - b ELSE 0

\* The waiter set made but left empty.
map_insert_empty(m, k, v) == [x \in (DOMAIN m) \cup {k} |-> IF x = k THEN {} ELSE m[x]]

map_insert(m, k, v) == [x \in (DOMAIN m) \cup {k} |-> IF x = k THEN v ELSE m[x]]

\* The entry read but left in the map.
map_remove_kept(m, k) == m

map_remove(m, k) == [x \in (DOMAIN m) \ {k} |-> m[x]]

\* The element left in the set.
set_remove_kept(s, x) == s

set_remove(s, x) == s \ {x}

\* The (idx, i) at which the nested loops of lines 39-43 find a sub-block that
\* is in range and not yet set.
\* The scan without its bounds check.
fresh_slots_unbounded(peer) ==
    {s \in iter_from(peer.pieces, piece_idx) \X (0 .. (scale - 1)) :
        ~has_piece(pieces, s[1] * scale + s[2])}

fresh_slots(peer) ==
    {s \in iter_from(peer.pieces, piece_idx) \X (0 .. (scale - 1)) :
        /\ s[1] * scale + s[2] < pieces.len
        /\ ~has_piece(pieces, s[1] * scale + s[2])}

\* The loops run idx ascending and, inside, i ascending: the first hit.
\* The loops run backwards: the last hit.
first_slot_last(slots) ==
    CHOOSE s \in slots :
        \A t \in slots : s[1] > t[1] \/ (s[1] = t[1] /\ s[2] >= t[2])

first_slot(slots) ==
    CHOOSE s \in slots :
        \A t \in slots : s[1] < t[1] \/ (s[1] = t[1] /\ s[2] <= t[2])

\* Lines 59-64: the elements of waiting at which the scan may stop.  A HashSet
\* iterates in no specified order, so any of them can be the first met.
\* The scan without its has_piece test.
endgame_candidates_any(peer) == waiting

endgame_candidates(peer) ==
    {q \in waiting : has_piece(peer.pieces, q \div scale)}

\* Endgame entered one sub-block early.
in_endgame_early == endgame_cnt <= 1

\* Line 57.
in_endgame == endgame_cnt = 0

\* The sub-block put in flight without its bit set.
pick_fresh_unset(peer, s) ==
    LET b == s[1] * scale + s[2]
    IN  /\ pieces' = pieces
        /\ waiting' = waiting \cup {b}
        /\ waiting_peers' = map_insert(waiting_peers, b, {peer.id})
        /\ endgame_cnt' = saturating_sub(endgame_cnt, 1)
        /\ ret' = [op |-> "pick", id |-> peer.id, view |-> peer.pieces.bits,
                   path |-> "fresh", piece |-> s[1], offset |-> s[2] * BLOCK,
                   done |-> FALSE, peers |-> {}, flip |-> 1 - ret.flip]
        /\ UNCHANGED <<num_pieces, scale, piece_idx>>

pick_fresh(peer, s) ==
    LET b == s[1] * scale + s[2]
    IN  /\ pieces' = set_piece(pieces, b)
        /\ waiting' = waiting \cup {b}
        /\ waiting_peers' = map_insert(waiting_peers, b, {peer.id})
        /\ endgame_cnt' = saturating_sub(endgame_cnt, 1)
        /\ ret' = [op |-> "pick", id |-> peer.id, view |-> peer.pieces.bits,
                   path |-> "fresh", piece |-> s[1], offset |-> s[2] * BLOCK,
                   done |-> FALSE, peers |-> {}, flip |-> 1 - ret.flip]
        /\ UNCHANGED <<num_pieces, scale, piece_idx>>

\* Lines 65-68; get_mut(&i).unwrap() panics when i is no key of waiting_peers.
\* The waiter set replaced by the new peer instead of extended.
pick_endgame_replaced(peer, q) ==
    /\ waiting_peers' = map_insert(waiting_peers, q, {peer.id})
    /\ ret' = [op |-> "pick", id |-> peer.id, view |-> peer.pieces.bits,
               path |-> "endgame", piece |-> q \div scale,
               offset |-> (q % scale) * BLOCK,
               done |-> FALSE, peers |-> {}, flip |-> 1 - ret.flip]
    /\ UNCHANGED <<num_pieces, scale, pieces, piece_idx, endgame_cnt, waiting>>

pick_endgame(peer, q) ==
    IF q \in DOMAIN waiting_peers
    THEN /\ waiting_peers' = [waiting_peers EXCEPT ![q] = @ \cup {peer.id}]
         /\ ret' = [op |-> "pick", id |-> peer.id, view |-> peer.pieces.bits,
                    path |-> "endgame", piece |-> q \div scale,
                    offset |-> (q % scale) * BLOCK,
                    done |-> FALSE, peers |-> {}, flip |-> 1 - ret.flip]
         /\ UNCHANGED <<num_pieces, scale, pieces, piece_idx, endgame_cnt, waiting>>
    ELSE /\ ret' = [op |-> "pick", id |-> peer.id, view |-> peer.pieces.bits,
                    path |-> "panic", piece |-> -1, offset |-> -1,
                    done |-> FALSE, peers |-> {}, flip |-> 1 - ret.flip]
         /\ UNCHANGED <<num_pieces, scale, pieces, piece_idx, endgame_cnt,
                        waiting, waiting_peers>>

pick_none(peer) ==
    /\ ret' = [op |-> "pick", id |-> peer.id, view |-> peer.pieces.bits,
               path |-> "none", piece |-> -1, offset |-> -1,
               done |-> FALSE, peers |-> {}, flip |-> 1 - ret.flip]
    /\ UNCHANGED <<num_pieces, scale, pieces, piece_idx, endgame_cnt,
                   waiting, waiting_peers>>

pick(peer) ==
    IF fresh_slots(peer) # {}
    THEN pick_fresh(peer, first_slot(fresh_slots(peer)))
    ELSE IF in_endgame /\ endgame_candidates(peer) # {}
         THEN \E q \in endgame_candidates(peer) : pick_endgame(peer, q)
         ELSE pick_none(peer)

\* What the caller of pick has seen: a fresh sub-block starts a new set of
\* askers, an endgame pick adds the peer to the set of the sub-block returned.
asked_after_pick(r) ==
    LET b == r.piece * scale + r.offset \div BLOCK
    IN  IF r.path = "fresh"
        THEN [asked EXCEPT ![b] = {r.id}]
        ELSE IF r.path = "endgame"
        THEN [asked EXCEPT ![b] = @ \cup {r.id}]
        ELSE asked

\* The history of a sub-block ends when completed is called for it.
asked_after_completed(r) ==
    LET b == r.piece * scale + r.offset \div BLOCK
    IN  [asked EXCEPT ![b] = {}]

Pick ==
    \E peer \in Peers :
        /\ ret.path # "panic"
        /\ pick(peer)
        /\ asked' = asked_after_pick(ret')
        /\ pairs' = pairs
        /\ UNCHANGED cache_vars
        /\ UNCHANGED sim

\* ------------------------------------------------------- Picker::completed
\* The loop of lines 80-84 and 92-96: no sub-block of the range starting at
\* idx is in range and unset, and none is in waiting.
\* The test without its waiting.contains half.
range_done_unwaited(pf, w, idx) ==
    \A i \in 0 .. (scale - 1) : ~(idx + i < pf.len /\ ~has_piece(pf, idx + i))

\* The test without its bounds check: past the end no bit is set.
range_done_unbounded(pf, w, idx) ==
    \A i \in 0 .. (scale - 1) : ~(~has_piece(pf, idx + i) \/ (idx + i) \in w)

range_done(pf, w, idx) ==
    \A i \in 0 .. (scale - 1) :
        ~((idx + i < pf.len /\ ~has_piece(pf, idx + i)) \/ (idx + i) \in w)

\* The loop of update_piece_idx, from cursor p with idx = p * scale.
RECURSIVE update_loop(_, _, _, _)
update_loop(pf, w, p, idx) ==
    IF ~range_done(pf, w, idx) THEN p
    ELSE IF idx + scale > pf.len THEN p + 1
    ELSE update_loop(pf, w, p + 1, idx + scale)

\* The number of pieces passed instead of the cursor reached.
update_piece_idx_passed(pf, w, p) == update_loop(pf, w, 0, p * scale)

update_piece_idx(pf, w, p) == update_loop(pf, w, p, p * scale)

completed(piece, byte_offset) ==
    LET offset == byte_offset \div BLOCK
        idx == piece * scale
        w == set_remove(waiting, idx + offset)
        peers == IF (idx + offset) \in DOMAIN waiting_peers
                 THEN waiting_peers[idx + offset] ELSE {}
        done == range_done(pieces, w, idx)
    IN  /\ waiting' = w
        /\ waiting_peers' = map_remove(waiting_peers, idx + offset)
        /\ piece_idx' = IF done THEN update_piece_idx(pieces, w, piece_idx)
                        ELSE piece_idx
        /\ ret' = [op |-> "completed", id |-> -1, view |-> {}, path |-> "-",
                   piece |-> piece, offset |-> byte_offset,
                   done |-> done, peers |-> peers, flip |-> 1 - ret.flip]
        /\ UNCHANGED <<num_pieces, scale, pieces, endgame_cnt>>

\* completed is called for the sub-blocks of the torrent.
Completed ==
    \E piece \in 0 .. (num_pieces - 1), j \in 0 .. (scale - 1) :
        /\ ret.path # "panic"
        /\ piece * scale + j < pieces.len
        /\ completed(piece, j * BLOCK)
        /\ piece_idx' <= num_pieces + MaxOver
        /\ asked' = asked_after_completed(ret')
        /\ pairs' = pairs
        /\ UNCHANGED cache_vars
        /\ UNCHANGED sim

Next == Pick \/ Completed

Spec == Init /\ [][Next]_vars

\* A peer that advertises every piece.
full_peer(id) ==
    [id |-> id, pieces |-> [len |-> num_pieces, bits |-> 0 .. (num_pieces - 1)]]

\* pick called for such a peer.
PickAll(id) ==
    /\ ret.path # "panic"
    /\ pick(full_peer(id))
    /\ asked' = asked_after_pick(ret')
    /\ pairs' = pairs
    /\ UNCHANGED cache_vars
    /\ UNCHANGED sim

\* Every peer that advertises every piece keeps calling pick; nothing makes a
\* completed call arrive.
SpecFair == Spec /\ \A id \in PeerIds : WF_vars(PickAll(id))

\* ------------------------------------------------ Picker::invalidate_piece
\* The hash-failure reset, which picker.rs does not hold: as specified.
piece_range(p) == {b \in 0 .. (pieces.len - 1) : b \div scale = p}

\* The reset that leaves the cursor where it was.
invalidate_piece_cursor_kept(p) ==
    LET cleared == piece_range(p) \cap pieces.bits
    IN  /\ pieces' = [pieces EXCEPT !.bits = @ \ piece_range(p)]
        /\ waiting' = waiting \ piece_range(p)
        /\ waiting_peers' = [x \in (DOMAIN waiting_peers) \ piece_range(p) |->
                                waiting_peers[x]]
        /\ endgame_cnt' = endgame_cnt + Cardinality(cleared)
        /\ piece_idx' = piece_idx
        /\ ret' = [op |-> "invalidate", id |-> -1, view |-> {}, path |-> "-",
                   piece |-> p, offset |-> -1, done |-> FALSE, peers |-> {},
                   flip |-> 1 - ret.flip,
                   cleared |-> Cardinality(cleared), lowered |-> piece_idx > p]
        /\ UNCHANGED <<num_pieces, scale>>

invalidate_piece(p) ==
    LET cleared == piece_range(p) \cap pieces.bits
    IN  /\ pieces' = [pieces EXCEPT !.bits = @ \ piece_range(p)]
        /\ waiting' = waiting \ piece_range(p)
        /\ waiting_peers' = [x \in (DOMAIN waiting_peers) \ piece_range(p) |->
                                waiting_peers[x]]
        /\ endgame_cnt' = endgame_cnt + Cardinality(cleared)
        /\ piece_idx' = IF piece_idx > p THEN p ELSE piece_idx
        /\ ret' = [op |-> "invalidate", id |-> -1, view |-> {}, path |-> "-",
                   piece |-> p, offset |-> -1, done |-> FALSE, peers |-> {},
                   flip |-> 1 - ret.flip,
                   cleared |-> Cardinality(cleared), lowered |-> piece_idx > p]
        /\ UNCHANGED <<num_pieces, scale>>

Invalidate ==
    \E p \in 0 .. (num_pieces - 1) :
        /\ ret.path # "panic"
        /\ invalidate_piece(p)
        /\ asked' = [x \in DOMAIN asked |->
                        IF x \in piece_range(p) THEN {} ELSE asked[x]]
        /\ pairs' = pairs
        /\ UNCHANGED cache_vars
        /\ UNCHANGED sim

\* pick, completed and invalidate_piece in any order.
SpecInv == Init /\ [][Next \/ Invalidate]_vars

\* pick returned Some((ret.piece, ret.offset)).
Returned(r) == r.op = "pick" /\ r.path \in {"fresh", "endgame"}

\* ------------------------------------------------- a single-peer transfer
\* Metadata of up to MaxPieces pieces of up to MaxScale sub-blocks, the last
\* piece of any length around the sub-block boundaries, and that of the test.
RunInfos ==
    {TestInfo} \cup
    {[piece_len |-> k * BLOCK, total_len |-> k * BLOCK * (n - 1) + r, hashes |-> n] :
        <<k, n, r>> \in
            {x \in (1 .. MaxScale) \X (1 .. MaxPieces) \X
                    UNION {{j * BLOCK - 1, j * BLOCK, (j - 1) * BLOCK + 1} :
                              j \in 1 .. MaxScale} :
                x[3] <= x[1] * BLOCK}}

RunInit ==
    /\ \E info \in RunInfos : new(info)
    /\ asked = [b \in 0 .. (pieces.len - 1) |-> {}]
    /\ pairs = 0
    /\ FileCacheNew(MaxOpen)
    /\ sim = SimOff

\* One peer, which advertises every piece, is picked for until the cursor
\* stands at num_pieces ...
RunPick ==
    /\ ret.op # "pick"
    /\ piece_idx # num_pieces
    /\ pick(full_peer(0))
    /\ asked' = asked_after_pick(ret')
    /\ pairs' = pairs
    /\ UNCHANGED cache_vars
    /\ UNCHANGED sim

\* ... and each sub-block returned is completed at once.
RunCompleted ==
    /\ Returned(ret)
    /\ completed(ret.piece, ret.offset)
    /\ asked' = asked_after_completed(ret')
    /\ pairs' = pairs + 1
    /\ UNCHANGED cache_vars
    /\ UNCHANGED sim

RunNext == RunPick \/ RunCompleted

SpecRun == RunInit /\ [][RunNext]_vars

\* ------------------------------------------------------ FileCache::get_file
Paths == 0 .. MaxPaths

\* Path::parent() is None for the root path alone, which is path 0.
has_parent(path) == path # 0

\* The handles open at this moment: the cached ones, and the one get_file has
\* opened and not yet inserted while the closure runs on it.
open_handles ==
    Cardinality(files) + (IF fcall.pc = "in_f" /\ ~fcall.hit THEN 1 ELSE 0)

\* The cache is at capacity: the test of line 28.
at_capacity == Cardinality(files) >= max_open_files

\* get_file up to the point where the closure is running, or up to the
\* return or the panic that comes before it.
get_file_begin(path) ==
    IF path \in files
    THEN /\ fcall' = fcall_of("get_file", "in_f", path, TRUE, "-", 1, 21)
         /\ UNCHANGED <<files, max_open_files>>
    ELSE IF at_capacity /\ files = {}
    THEN /\ fcall' = fcall_of("get_file", "panic", path, FALSE, "-", 0, 29)
         /\ UNCHANGED <<files, max_open_files>>
    ELSE /\ \E kept \in (IF at_capacity THEN {files \ {removal} : removal \in files}
                                        ELSE {files}) :
                files' = kept
         /\ IF ~has_parent(path)
            THEN fcall' = fcall_of("get_file", "panic", path, FALSE, "-", 0, 32)
            ELSE \/ fcall' = fcall_of("get_file", "idle", path, FALSE, "err_dir", 0, 32)
                 \/ fcall' = fcall_of("get_file", "idle", path, FALSE, "err_open", 0, 37)
                 \/ fcall' = fcall_of("get_file", "in_f", path, FALSE, "-", 1, 38)
         /\ UNCHANGED max_open_files

\* The closure returns: its error is get_file's, and a newly opened file is
\* inserted only after the closure succeeded.
\* The closure's error dropped: get_file returns Ok whatever the closure did.
get_file_end_swallowed(ok) ==
    /\ fcall' = [fcall EXCEPT !.pc = "idle", !.res = "ok"]
    /\ files' = IF ok /\ ~fcall.hit THEN files \cup {fcall.path} ELSE files
    /\ UNCHANGED max_open_files

\* The newly opened file inserted whether or not the closure succeeded.
get_file_end_insert_always(ok) ==
    /\ fcall' = [fcall EXCEPT !.pc = "idle",
                              !.res = IF ok THEN "ok" ELSE "err_f",
                              !.line = IF ~ok THEN @
                                       ELSE IF fcall.hit THEN 41 ELSE 39]
    /\ files' = IF ~fcall.hit THEN files \cup {fcall.path} ELSE files
    /\ UNCHANGED max_open_files

get_file_end(ok) ==
    /\ fcall' = [fcall EXCEPT !.pc = "idle",
                              !.res = IF ok THEN "ok" ELSE "err_f",
                              !.line = IF ~ok THEN @
                                       ELSE IF fcall.hit THEN 41 ELSE 39]
    /\ files' = IF ok /\ ~fcall.hit THEN files \cup {fcall.path} ELSE files
    /\ UNCHANGED max_open_files

\* ---------------------------------------------------- FileCache::remove_file
remove_file(path) ==
    /\ fcall' = fcall_of("remove_file", "idle", path, path \in files, "ok", 0, 45)
    /\ files' = files \ {path}
    /\ UNCHANGED max_open_files

GetFileBegin ==
    \E path \in Paths :
        /\ fcall.pc = "idle"
        /\ get_file_begin(path)
        /\ UNCHANGED picker_vars
        /\ UNCHANGED sim

GetFileEnd ==
    \E ok \in BOOLEAN :
        /\ fcall.pc = "in_f"
        /\ get_file_end(ok)
        /\ UNCHANGED picker_vars
        /\ UNCHANGED sim

RemoveFile ==
    \E path \in Paths :
        /\ fcall.pc = "idle"
        /\ remove_file(path)
        /\ UNCHANGED picker_vars
        /\ UNCHANGED sim

\* A cache under each configuration, beside a picker that is left alone.
CacheInit ==
    /\ new(TestInfo)
    /\ asked = [b \in 0 .. (pieces.len - 1) |-> {}]
    /\ pairs = 0
    /\ \E m \in 0 .. MaxOpen : FileCacheNew(m)
    /\ sim = SimOff

CacheNext == GetFileBegin \/ GetFileEnd \/ RemoveFile

SpecCache == CacheInit /\ [][CacheNext]_vars

\* --------------------------------------------- picker/tests.rs: Simulation
\* The TestCfg of test_seq_efficiency, but for the sizes of the swarm.
REQ_PER_TICK == 2
REQ_QUEUE_LEN == 2
CONNECT_LIMIT == 20

\* Swarms in the proportions of the test: every peer connected to all, and
\* an unchoke_limit below the number of peers and of at least two, so that
\* the seed unchokes a peer other than itself.
SimCfgs ==
    UNION {{[pieces |-> k, peers |-> n, req_per_tick |-> REQ_PER_TICK,
             req_queue_len |-> REQ_QUEUE_LEN, unchoke_limit |-> u,
             connect_limit |-> CONNECT_LIMIT] :
                k \in 1 .. MaxSimPieces, u \in 2 .. (n - 1)} :
           n \in 3 .. MaxSimPeers}

\* The Info of test_seq_efficiency: pieces of one sub-block each.
SimInfo(cfg) ==
    [piece_len |-> BLOCK, total_len |-> BLOCK * cfg.pieces, hashes |-> cfg.pieces]

\* rand::sample(rng, iter, amount): amount distinct elements, or all of them
\* when there are no more than amount.
sample(S, amount) ==
    IF Cardinality(S) <= amount THEN {S}
    ELSE {T \in SUBSET S : Cardinality(T) = amount}

\* The elements of a set of peer ids in ascending order.
RECURSIVE ascending(_)
ascending(S) ==
    IF S = {} THEN << >>
    ELSE LET m == CHOOSE x \in S : \A y \in S : x <= y
         IN  <<m>> \o ascending(S \ {m})

\* A peer's own Picker: the state Picker::new builds, as a record.
pk_new(info) ==
    [endgame_cnt |-> new_len(info), piece_idx |-> 0,
     pieces |-> PieceFieldNew(new_len(info)), scale |-> new_scale(info),
     waiting |-> {}, waiting_peers |-> << >>]

\* pick on such a record: the records it can become, each with the piece
\* returned (-1 for None, -2 for the panic of line 66).
pk_pick(pk, view, id) ==
    LET slots == {sl \in iter_from(view, pk.piece_idx) \X (0 .. (pk.scale - 1)) :
                     /\ sl[1] * pk.scale + sl[2] < pk.pieces.len
                     /\ ~has_piece(pk.pieces, sl[1] * pk.scale + sl[2])}
        cands == {q \in pk.waiting : has_piece(view, q \div pk.scale)}
    IN  IF slots # {}
        THEN LET sl == first_slot(slots)
                 b == sl[1] * pk.scale + sl[2]
             IN  {[pk |-> [pk EXCEPT !.pieces = set_piece(@, b),
                                     !.waiting = @ \cup {b},
                                     !.waiting_peers = map_insert(@, b, {id}),
                                     !.endgame_cnt = saturating_sub(@, 1)],
                   piece |-> sl[1]]}
        ELSE IF pk.endgame_cnt = 0 /\ cands # {}
        THEN {IF q \in DOMAIN pk.waiting_peers
              THEN [pk |-> [pk EXCEPT !.waiting_peers =
                                        map_insert(@, q, @[q] \cup {id})],
                    piece |-> q \div pk.scale]
              ELSE [pk |-> pk, piece |-> -2] : q \in cands}
        ELSE {[pk |-> pk, piece |-> -1]}

\* The loop of update_piece_idx on such a record.
RECURSIVE pk_update_loop(_, _, _)
pk_update_loop(pk, p, idx) ==
    IF \E i \in 0 .. (pk.scale - 1) :
            \/ (idx + i < pk.pieces.len /\ ~has_piece(pk.pieces, idx + i))
            \/ (idx + i) \in pk.waiting
    THEN p
    ELSE IF idx + pk.scale > pk.pieces.len THEN p + 1
    ELSE pk_update_loop(pk, p + 1, idx + pk.scale)

\* completed on such a record; the simulation drops what it returns.
pk_completed(pk, piece, byte_offset) ==
    LET b == piece * pk.scale + byte_offset \div BLOCK
        pk1 == [pk EXCEPT !.waiting = set_remove(@, b),
                          !.waiting_peers = map_remove(@, b)]
        done == \A i \in 0 .. (pk.scale - 1) :
                    ~(\/ (piece * pk.scale + i < pk1.pieces.len
                           /\ ~has_piece(pk1.pieces, piece * pk.scale + i))
                      \/ (piece * pk.scale + i) \in pk1.waiting)
    IN  IF done
        THEN [pk1 EXCEPT !.piece_idx =
                            pk_update_loop(pk1, pk1.piece_idx, pk1.piece_idx * pk1.scale)]
        ELSE pk1

\* Bitfield::complete and PieceField::usable on the pieces a peer holds.
sim_complete(S, i) == S.have[i] = 0 .. (S.cfg.pieces - 1)

sim_usable(S, i, other) == S.have[other] \ S.have[i] # {}

SimPeerIds(cfg) == 0 .. (cfg.peers - 1)

\* Simulation::new and init: peer 0 is the seed, unchoked_by lists in
\* ascending order the peers that chose to unchoke the peer.
SimNew(cfg, connected, unchoked) ==
    [status |-> "running", cfg |-> cfg, ticks |-> 0,
     connected |-> connected, unchoked |-> unchoked,
     unchoked_by |-> [i \in SimPeerIds(cfg) |->
                        ascending({j \in SimPeerIds(cfg) : i \in unchoked[j]})],
     requests |-> [i \in SimPeerIds(cfg) |-> << >>],
     requested_pieces |-> [i \in SimPeerIds(cfg) |-> [j \in SimPeerIds(cfg) |-> 0]],
     compl |-> [i \in SimPeerIds(cfg) |-> -1],
     have |-> [i \in SimPeerIds(cfg) |->
                 IF i = 0 THEN 0 .. (cfg.pieces - 1) ELSE {}],
     picker |-> [i \in SimPeerIds(cfg) |-> pk_new(SimInfo(cfg))]]

\* Lines 90-97: when the receiver has become complete, the uploader is
\* appended to the unchoked_by of every peer still incomplete.
\* The uploader unchokes nobody new.
sim_unchoke_on_complete_skipped(S, u, d) == S

sim_unchoke_on_complete(S, u, d) ==
    IF sim_complete(S, d)
    THEN [S EXCEPT !.compl[d] = S.ticks,
                   !.unchoked_by =
                        [i \in SimPeerIds(S.cfg) |->
                            IF ~sim_complete(S, i)
                               /\ \A x \in 1 .. Len(S.unchoked_by[i]) :
                                        S.unchoked_by[i][x] # u
                            THEN Append(S.unchoked_by[i], u)
                            ELSE S.unchoked_by[i]]]
    ELSE S

\* Lines 80-102: peer u fulfils the request on top of its stack.
sim_fulfil(S, u) ==
    IF S.requests[u] = << >> THEN S
    ELSE LET req == S.requests[u][Len(S.requests[u])]
             d == req.peer
             S1 == [S EXCEPT !.requests[u] = SubSeq(@, 1, Len(@) - 1),
                             !.picker[d] = pk_completed(@, req.piece, 0),
                             !.have[d] = @ \cup {req.piece}]
             S2 == sim_unchoke_on_complete(S1, u, d)
         IN  [S2 EXCEPT !.requested_pieces[d][u] = @ - 1]

RECURSIVE sim_fulfil_n(_, _, _)
sim_fulfil_n(S, u, n) ==
    IF n = 0 THEN S ELSE sim_fulfil_n(sim_fulfil(S, u), u, n - 1)

\* Lines 109-116: peer u asks its picker for blocks of uploader up until the
\* queue is full or the picker has nothing.
RECURSIVE sim_fill(_, _, _)
sim_fill(S, u, up) ==
    IF S.status = "panic" \/ S.requested_pieces[u][up] >= S.cfg.req_queue_len
    THEN {S}
    ELSE UNION {IF r.piece = -1 THEN {S}
                ELSE IF r.piece = -2 THEN {[S EXCEPT !.status = "panic"]}
                ELSE sim_fill([S EXCEPT
                        !.picker[u] = r.pk,
                        !.requests[up] = Append(@, [peer |-> u, piece |-> r.piece]),
                        !.requested_pieces[u][up] = @ + 1], u, up) :
                  r \in pk_pick(S.picker[u],
                                [len |-> S.cfg.pieces, bits |-> S.have[up]], up)}

\* Lines 105-118: the uploaders that unchoke peer u, from the k-th on.
RECURSIVE sim_request(_, _, _)
sim_request(S, u, k) ==
    IF k > Len(S.unchoked_by[u]) THEN {S}
    ELSE LET up == S.unchoked_by[u][k]
         IN  IF sim_usable(S, u, up)
             THEN UNION {sim_request(S1, u, k + 1) : S1 \in sim_fill(S, u, up)}
             ELSE sim_request(S, u, k + 1)

\* Lines 78-119: the peers from u on, each fulfilling and then requesting.
RECURSIVE sim_peers(_, _)
sim_peers(S, u) ==
    IF u >= S.cfg.peers THEN {S}
    ELSE UNION {sim_peers(S1, u + 1) :
                    S1 \in sim_request(sim_fulfil_n(S, u, S.cfg.req_per_tick), u, 1)}

\* Simulation::tick inside the loop of run (lines 63-68): Ok ends the run,
\* Err counts a tick and panics at 3 * (pieces + peers).
tick(S) ==
    {IF S1.status = "panic" THEN S1
     ELSE IF \A i \in SimPeerIds(S1.cfg) : sim_complete(S1, i)
     THEN [S1 EXCEPT !.status = "done"]
     ELSE IF S1.ticks + 1 >= 3 * (S1.cfg.pieces + S1.cfg.peers)
     THEN [S1 EXCEPT !.ticks = @ + 1, !.status = "panic"]
     ELSE [S1 EXCEPT !.ticks = @ + 1] : S1 \in sim_peers(S, 0)}

Tick ==
    /\ sim.status = "running"
    /\ sim' \in tick(sim)
    /\ UNCHANGED picker_vars
    /\ UNCHANGED cache_vars

SimInit ==
    /\ new(TestInfo)
    /\ asked = [b \in 0 .. (pieces.len - 1) |-> {}]
    /\ pairs = 0
    /\ FileCacheNew(MaxOpen)
    /\ \E cfg \in SimCfgs :
         \E connected \in [SimPeerIds(cfg) ->
                                sample(SimPeerIds(cfg), cfg.connect_limit)] :
         \E unchoked \in [SimPeerIds(cfg) -> SUBSET SimPeerIds(cfg)] :
            /\ \A i \in SimPeerIds(cfg) :
                    unchoked[i] \in sample(connected[i], cfg.unchoke_limit)
            /\ sim = SimNew(cfg, connected, unchoked)

SpecSim == SimInit /\ [][Tick]_vars

\* ------------------------------------------------------------------ claims
\* Every step of Next is one call and flips ret.flip, so ret' describes the
\* call of the step and the unprimed variables the state it was made in.

\* The sub-block index a (piece, byte offset) pair names.
sub_block(piece, byte_offset) == piece * scale + byte_offset \div BLOCK

\* Every valid sub-block of piece p is set in pf and none is in w.
PieceDone(pf, w, p) ==
    \A j \in 0 .. (scale - 1) :
        p * scale + j < pf.len =>
            (p * scale + j) \in pf.bits /\ (p * scale + j) \notin w

\* C1: while endgame_cnt > 0 a pick returns nothing or a sub-block whose bit
\* was unset before the call; and a sub-block that is in waiting is handed out
\* again only when every sub-block has been scheduled.
C1_NoDuplicatesPreEndgame ==
    [][ret'.op = "pick" =>
        /\ endgame_cnt > 0 =>
            \/ ret'.path = "none"
            \/ /\ ret'.path = "fresh"
               /\ sub_block(ret'.piece, ret'.offset) \notin pieces.bits
        /\ (Returned(ret') /\ sub_block(ret'.piece, ret'.offset) \in waiting) =>
            pieces.bits = 0 .. (pieces.len - 1)]_vars

\* A fresh pick made while another sub-block is in flight and endgame is not
\* yet reached.
C1_Witness ==
    /\ ret.op = "pick" /\ ret.path = "fresh"
    /\ endgame_cnt > 0
    /\ Cardinality(waiting) >= 2

C3_EndgameNeverRepeatsPeer ==
    [][(ret'.op = "pick" /\ endgame_cnt = 0) =>
        /\ Returned(ret') =>
            ret'.id \notin waiting_peers[sub_block(ret'.piece, ret'.offset)]
        /\ (\A q \in waiting :
                (q \div scale) \in ret'.view => ret'.id \in waiting_peers[q]) =>
            ret'.path = "none"]_vars

\* C4 as stated: completed on a sub-block that is not in waiting returns
\* (false, {}).
C4_LateCompletionReturnsFalse ==
    [][(ret'.op = "completed"
        /\ sub_block(ret'.piece, ret'.offset) \notin waiting) =>
        (ret'.done = FALSE /\ ret'.peers = {})]_vars

\* C4 as amended: completed on a sub-block that is not in waiting returns the
\* empty peer set, and piece_done is true exactly when every valid sub-block
\* of the piece is set and none is in waiting.
C4_LateCompletionReturnsNoPeers ==
    [][(ret'.op = "completed"
        /\ sub_block(ret'.piece, ret'.offset) \notin waiting) =>
        /\ ret'.peers = {}
        /\ ret'.done = PieceDone(pieces, waiting, ret'.piece)]_vars

\* A second completed of a sub-block of a piece that is entirely done, made
\* while another piece is in flight.
C4_Witness ==
    /\ ret.op = "completed" /\ ret.peers = {} /\ ret.done
    /\ sub_block(ret.piece, ret.offset) \in pieces.bits
    /\ waiting # {}

\* The pieces that are not entirely done.
Undone == {p \in 0 .. (num_pieces - 1) : ~PieceDone(pieces, waiting, p)}

\* C5: piece_idx is the smallest piece index that is not entirely done, and
\* num_pieces when every piece is done.
C5_CursorIsFirstUndone ==
    piece_idx = IF Undone = {} THEN num_pieces
                ELSE CHOOSE p \in Undone : \A q \in Undone : p <= q

\* C6: every valid sub-block below piece_idx * scale is set in pieces and is
\* not in waiting.
C6_BelowCursorDone ==
    \A i \in 0 .. (pieces.len - 1) :
        i < piece_idx * scale => i \in pieces.bits /\ i \notin waiting

\* The cursor has passed a piece while a later sub-block is in flight.
C6_Witness ==
    /\ piece_idx >= 1
    /\ piece_idx < num_pieces
    /\ waiting # {}

\* C7: the key set of waiting_peers is the set waiting.
C7_WaiterCoherence ==
    DOMAIN waiting_peers = waiting

\* A completed has removed one of two in-flight sub-blocks.
C7_Witness ==
    /\ ret.op = "completed" /\ ret.peers # {}
    /\ waiting # {}

\* C8: endgame_cnt + (number of bits set in pieces) = total_blocks, so that
\* endgame_cnt lies in 0 .. total_blocks and is 0 exactly when every sub-block
\* has been scheduled.
C8_EndgameAccounting ==
    /\ endgame_cnt + Cardinality(pieces.bits) = pieces.len
    /\ endgame_cnt \in 0 .. pieces.len
    /\ endgame_cnt = 0 <=> pieces.bits = 0 .. (pieces.len - 1)

\* The last fresh pick of a torrent of several sub-blocks has been made.
C8_Witness ==
    /\ ret.op = "pick" /\ ret.path = "fresh"
    /\ endgame_cnt = 0
    /\ pieces.len >= 2

\* C9: piece_idx never decreases.
C9_CursorMonotone ==
    [][piece_idx' >= piece_idx]_vars

\* A completed call for a sub-block that was no longer in flight has been made
\* after the cursor moved.
C9_Witness ==
    /\ ret.op = "completed" /\ ret.peers = {}
    /\ piece_idx >= 1

\* C10: completed(p, o) returns true exactly when, with the sub-block removed
\* from waiting, every valid sub-block of piece p is set in pieces and none is
\* in waiting.
C10_DoneIffPieceDone ==
    ret.op = "completed" => (ret.done = PieceDone(pieces, waiting, ret.piece))

\* completed has reported the short last piece done.
C10_Witness ==
    /\ ret.op = "completed" /\ ret.done
    /\ ret.piece = num_pieces - 1
    /\ pieces.len < num_pieces * scale

\* C11: completed on an in-flight sub-block returns exactly the peers to which
\* pick has returned that sub-block since it was scheduled, and removes the
\* sub-block from waiting and from waiting_peers.
C11_CompletedReturnsAskers ==
    [][(ret'.op = "completed"
        /\ sub_block(ret'.piece, ret'.offset) \in waiting) =>
        /\ asked[sub_block(ret'.piece, ret'.offset)] # {}
        /\ ret'.peers = asked[sub_block(ret'.piece, ret'.offset)]
        /\ sub_block(ret'.piece, ret'.offset) \notin waiting'
        /\ sub_block(ret'.piece, ret'.offset) \notin DOMAIN waiting_peers']_vars

\* completed has returned the first picker and an endgame picker while
\* another sub-block stays in flight.
C11_Witness ==
    /\ ret.op = "completed" /\ Cardinality(ret.peers) = 2
    /\ waiting # {}

\* C12: no sub-block index >= total_blocks is set in pieces, put in waiting or
\* returned by pick; of a short last piece pick returns only the offsets of
\* its valid prefix.
C12_OnlyValidSubBlocks ==
    /\ pieces.bits \subseteq 0 .. (pieces.len - 1)
    /\ waiting \subseteq 0 .. (pieces.len - 1)
    /\ Returned(ret) =>
        /\ sub_block(ret.piece, ret.offset) \in 0 .. (pieces.len - 1)
        /\ ret.offset \div BLOCK < scale
        /\ ret.piece = num_pieces - 1 =>
            ret.offset \div BLOCK < pieces.len - scale * (num_pieces - 1)

\* pick has returned the last valid sub-block of a short last piece, and with
\* it every sub-block is scheduled.
C12_Witness ==
    /\ Returned(ret) /\ ret.piece = num_pieces - 1
    /\ pieces.len < num_pieces * scale
    /\ sub_block(ret.piece, ret.offset) = pieces.len - 1
    /\ endgame_cnt = 0

\* The offsets (in sub-blocks) of piece p that are valid and not yet set.
Unscheduled(p) ==
    {j \in 0 .. (scale - 1) :
        p * scale + j < pieces.len /\ (p * scale + j) \notin pieces.bits}

\* The pieces at or after the cursor that a view advertises and that still
\* have an unscheduled sub-block.
Pickable(view) == {p \in view : p >= piece_idx /\ Unscheduled(p) # {}}

C17_WaitingIsScheduled ==
    waiting \subseteq pieces.bits

\* One sub-block in flight, one done, one never scheduled.
C17_Witness ==
    /\ waiting # {}
    /\ pieces.bits \ waiting # {}
    /\ endgame_cnt > 0

\* Every sub-block is in flight (none completed), each asked of peer 0 alone.
FirstPeerPickedAll ==
    /\ waiting = 0 .. (pieces.len - 1)
    /\ \A q \in waiting : waiting_peers[q] = {0}

\* C14: two peers advertise every piece; once peer 0 has been picked every
\* sub-block and none is completed, each pick by peer 1 returns a sub-block,
\* and under repeated picks by peer 1 every in-flight sub-block comes to have
\* both peers in its waiting_peers set (unless a completed call intervenes).
C14_EndgameReachesEveryBlock ==
    /\ [][(waiting = 0 .. (pieces.len - 1)
           /\ ret'.op = "pick" /\ ret'.id = 1
           /\ ret'.view = 0 .. (num_pieces - 1)) => Returned(ret')]_vars
    /\ FirstPeerPickedAll ~>
            \/ waiting # 0 .. (pieces.len - 1)
            \/ \A q \in waiting : {0, 1} \subseteq waiting_peers[q]

\* C15: a sub-block that stays in flight after every sub-block has been
\* scheduled is, under repeated picks by peers that advertise its piece,
\* eventually returned again by an endgame pick (unless it is completed).
C15_AbandonedIsRepicked ==
    \A a \in 0 .. (MaxBlocks - 1) :
        (endgame_cnt = 0 /\ a \in waiting) ~>
            \/ a \notin waiting
            \/ /\ ret.op = "pick" /\ ret.path = "endgame"
               /\ sub_block(ret.piece, ret.offset) = a

\* C16: in the single-peer transfer piece_idx first equals num_pieces after
\* exactly total_blocks pick/completed pairs, and each of those picks returns
\* a sub-block that was not scheduled before (none is an endgame pick).
C16_TransferTakesTotalBlocksPairs ==
    /\ pairs <= pieces.len
    /\ pairs < pieces.len => piece_idx # num_pieces
    /\ pairs = pieces.len => piece_idx = num_pieces
    /\ (ret.op = "pick" /\ pairs < pieces.len) => ret.path = "fresh"

\* C18: new sets scale = piece_len / 16384 and sizes the bitmap to
\* scale * (num_pieces - 1) + ceil((total_len - piece_len * (num_pieces - 1))
\* / 16384): 123 for the metadata of the test, and scale sub-blocks for the
\* last piece when piece_len divides total_len.
C18_NewSizesBitmap ==
    ret.op = "new" =>
        LET info == ret.info
            last_bytes == info.total_len - info.piece_len * (info.hashes - 1)
        IN  /\ scale = info.piece_len \div 16384
            /\ pieces.len = scale * (info.hashes - 1) + Ceil(last_bytes, 16384)
            /\ pieces.bits = {}
            /\ endgame_cnt = pieces.len
            /\ info = TestInfo => pieces.len = 123
            /\ info.total_len % info.piece_len = 0 =>
                    pieces.len = scale * info.hashes

\* The picker built from the metadata of the test.
C18_Witness ==
    /\ ret.op = "new" /\ ret.info = TestInfo
    /\ scale = 16 /\ pieces.len = 123

\* The five invariants of the picker state.
PickerInvariants ==
    /\ waiting \subseteq pieces.bits
    /\ DOMAIN waiting_peers = waiting
    /\ \A i \in 0 .. (pieces.len - 1) :
            i < piece_idx * scale => i \in pieces.bits /\ i \notin waiting
    /\ endgame_cnt = pieces.len - Cardinality(pieces.bits)
    /\ endgame_cnt \in 0 .. pieces.len

\* C19: invalidate_piece(p) clears the bits of piece p, removes its sub-blocks
\* from waiting and waiting_peers, adds the number of bits cleared to
\* endgame_cnt and lowers piece_idx to p if it was greater; the five
\* invariants hold throughout, and the next pick by a peer that advertises
\* piece p alone schedules the first sub-block of p again.
C19_InvalidateResets ==
    /\ [](PickerInvariants)
    /\ [][ret'.op = "invalidate" =>
            /\ pieces'.bits = pieces.bits \ piece_range(ret'.piece)
            /\ pieces'.len = pieces.len
            /\ waiting' = waiting \ piece_range(ret'.piece)
            /\ DOMAIN waiting_peers' = (DOMAIN waiting_peers) \ piece_range(ret'.piece)
            /\ \A q \in DOMAIN waiting_peers' : waiting_peers'[q] = waiting_peers[q]
            /\ endgame_cnt' = endgame_cnt
                    + Cardinality(piece_range(ret'.piece) \cap pieces.bits)
            /\ piece_idx' = IF piece_idx > ret'.piece THEN ret'.piece
                            ELSE piece_idx]_vars
    /\ [][(ret.op = "invalidate" /\ ret'.op = "pick"
            /\ ret'.view = {ret.piece}) =>
            /\ ret'.path = "fresh"
            /\ ret'.piece = ret.piece /\ ret'.offset = 0]_vars

\* A piece below the cursor, with bits set, has just been invalidated: the
\* bits are cleared and the cursor has been lowered to it.
C19_Witness ==
    /\ ret.op = "invalidate"
    /\ ret.cleared > 0 /\ ret.lowered
    /\ piece_idx = ret.piece
    /\ piece_range(ret.piece) \cap pieces.bits = {}

\* C20: at every moment, the closure's run on a newly opened file included,
\* the cache holds at most max_open_files open handles, and get_file never
\* aborts, whatever max_open_files is configured.
C20_BoundedAndNeverAborts ==
    /\ open_handles <= max_open_files
    /\ fcall.op = "get_file" => fcall.pc # "panic"

\* get_file has returned to its caller.
GetFileReturned == fcall.op = "get_file" /\ fcall.pc = "idle"

\* C21: a get_file call that stops at the directory creation (line 32), at
\* the open (line 37) or at the closure (lines 21, 38) returns that error; the
\* closure is invoked at most once in a call, not at all when the failure
\* comes before it, and exactly once when the call returns Ok.
C21_ErrorsPropagateOnce ==
    fcall.op = "get_file" =>
        /\ fcall.calls <= 1
        /\ GetFileReturned =>
            /\ fcall.line = 32 => fcall.res = "err_dir" /\ fcall.calls = 0
            /\ fcall.line = 37 => fcall.res = "err_open" /\ fcall.calls = 0
            /\ fcall.line \in {21, 38} => fcall.res = "err_f" /\ fcall.calls = 1
            /\ fcall.line \in {39, 41} => fcall.res = "ok" /\ fcall.calls = 1
            /\ fcall.line \in {21, 32, 37, 38, 39, 41}

\* The closure has failed on a newly opened file, with other files cached.
C21_Witness ==
    /\ GetFileReturned
    /\ fcall.res = "err_f" /\ ~fcall.hit /\ fcall.calls = 1
    /\ files # {}

\* C25: on a cached path get_file runs the closure on the cached handle and
\* the key set stays as it was to the end of the call; on an uncached path
\* exactly one other entry is evicted if and only if the cache holds
\* max_open_files entries; after a call that returned Ok the path is cached.
C25_HitKeepsMissEvictsAtCapacity ==
    [][/\ (fcall.pc = "idle" /\ fcall'.op = "get_file") =>
            IF fcall'.path \in files
            THEN /\ fcall'.hit /\ fcall'.pc = "in_f" /\ fcall'.calls = 1
                 /\ files' = files
            ELSE /\ files' \subseteq files
                 /\ Cardinality(files \ files') <= 1
                 /\ Cardinality(files \ files') = 1
                        <=> Cardinality(files) = max_open_files
       /\ (fcall.pc = "in_f" /\ fcall'.pc = "idle") =>
            /\ fcall.hit => files' = fcall'.before
            /\ fcall'.res = "ok" => fcall'.path \in files']_vars

\* get_file has returned an error to its caller.
GetFileFailed ==
    GetFileReturned /\ fcall.res \in {"err_dir", "err_open", "err_f"}

\* C27: a get_file call that returns an error leaves the set of cached paths
\* exactly as it was when the call began.
C27_ErrorLeavesKeysUnchanged == GetFileFailed => files = fcall.before

\* C27, amended: a get_file call that returns an error does not insert the
\* requested path; the cached paths are those of before the call less at
\* most one, and one is missing exactly when the path was uncached and the
\* cache was at capacity (the eviction of lines 28-31 is not undone).
C27_ErrorInsertsNothing ==
    GetFileFailed =>
        /\ files \subseteq fcall.before
        /\ fcall.path \notin files \ fcall.before
        /\ Cardinality(fcall.before \ files) <= 1
        /\ Cardinality(fcall.before \ files) = 1
                <=> (~fcall.hit /\ Cardinality(fcall.before) >= max_open_files)

\* The open has failed after an entry was evicted to make room.
C27_Witness ==
    /\ GetFileFailed /\ fcall.res = "err_open"
    /\ Cardinality(fcall.before \ files) = 1

\* C24: a pick that schedules no fresh sub-block returns an in-flight
\* sub-block or nothing, and leaves pieces, waiting, endgame_cnt and piece_idx
\* as they were; an endgame pick adds the peer to the waiting_peers set of the
\* sub-block it returns and changes no other set, and a pick that returns
\* nothing changes waiting_peers not at all.
C24_UnscheduledPickFrame ==
    [][(ret'.op = "pick" /\ ret'.path # "fresh") =>
        /\ ret'.path \in {"endgame", "none"}
        /\ pieces' = pieces /\ waiting' = waiting
        /\ endgame_cnt' = endgame_cnt /\ piece_idx' = piece_idx
        /\ num_pieces' = num_pieces /\ scale' = scale
        /\ ret'.path = "none" => waiting_peers' = waiting_peers
        /\ ret'.path = "endgame" =>
            /\ DOMAIN waiting_peers' = DOMAIN waiting_peers
            /\ \A q \in DOMAIN waiting_peers :
                    waiting_peers'[q] =
                        IF q = sub_block(ret'.piece, ret'.offset)
                        THEN waiting_peers[q] \cup {ret'.id}
                        ELSE waiting_peers[q]]_vars

\* An endgame pick has added a second peer to one of several in-flight
\* sub-blocks.
C24_Witness ==
    /\ ret.op = "pick" /\ ret.path = "endgame"
    /\ Cardinality(waiting) >= 2
    /\ Cardinality(waiting_peers[sub_block(ret.piece, ret.offset)]) = 2

\* C26: completed on a sub-block that is not in waiting leaves pieces,
\* waiting, waiting_peers, endgame_cnt and piece_idx as they were, also after
\* the whole torrent is done.
C26_LateCompletionFrame ==
    [][(ret'.op = "completed"
        /\ sub_block(ret'.piece, ret'.offset) \notin waiting) =>
        /\ pieces' = pieces /\ waiting' = waiting
        /\ waiting_peers' = waiting_peers
        /\ endgame_cnt' = endgame_cnt /\ piece_idx' = piece_idx]_vars

====
